---- MODULE Spec2Model ----
(***************************************************************************)
(* Model of the Lastkajen API client (src/src/lib.rs, src/src/types.rs).   *)
(*                                                                         *)
(* A Session (struct Lastkajen) holds a bearer token.  Callers run the     *)
(* async operations of the client; every operation is a chain of await     *)
(* points (send, body text, json, chunk), and one action of the model is   *)
(* the code that runs between two await points.  The server and the sink   *)
(* are the environment: what they answer is chosen with \E.                *)
(***************************************************************************)
EXTENDS Integers, Sequences, FiniteSets, TLC

\* ------------------------------------------------------------------------
\* Bounds of the model
\* ------------------------------------------------------------------------
MaxChunks == 3      \* chunks a streamed response delivers at most
MaxChunkLen == 2    \* bytes in one chunk at most
ConcChunks == 1     \* chunks per response when two callers run concurrently

\* the callers of the client; Solo runs alone, Callers run concurrently
Callers == {"c1", "c2"}
Solo == {"c1"}

\* The streamed body is the byte sequence 1, 2, 3, ...; the transport cuts it
\* into chunks of 1..MaxChunkLen bytes.  NextChunk is the chunk of n bytes
\* that follows `base` bytes already delivered.
NextChunk(base, n) == [i \in 1..n |-> base + i]

\* ------------------------------------------------------------------------
\* Values exchanged with the service
\* ------------------------------------------------------------------------
Statuses == {200, 204, 401}

TokenBodyAbc == "{\"access_token\":\"abc\",\"expires_in\":3600,\"is_external\":false}"
TokenBodyXyz == "{\"access_token\":\"xyz\",\"expires_in\":60,\"is_external\":true}"
Bodies == {"bad credentials", "\"tok123\"", "\"tok9\"", "[]", TokenBodyAbc, TokenBodyXyz}

PackageIds == {42}
Files == {"a.zip"}
DlTokens == {"tok123", "tok9"}
Variants == {"Published", "User"}

NoAuth == "-"
NoForm == [UserName |-> "-", Password |-> "-"]
Credentials == [UserName |-> "user", Password |-> "secret"]
NoToken == [access_token |-> "-", expires_in |-> 0, is_external |-> FALSE]
NoDownloadToken == [variant |-> "-", token |-> "-"]
NoArg == [variant |-> "-", id |-> 0, file |-> "-", token |-> "-"]
NoResult == [kind |-> "-", val |-> "-"]
NoResponse == [status |-> 0, readable |-> FALSE, body |-> "-", decoded |-> FALSE]

\* enum LastkajenError
ReqwestError(cause) == [kind |-> "ReqwestError", val |-> cause]
IoError(cause) == [kind |-> "IoError", val |-> cause]
StatusError(code) == [kind |-> "StatusError", val |-> code]
ServiceError(text) == [kind |-> "LastkajenError", val |-> text]
Ok(v) == [kind |-> "Ok", val |-> v]

\* enum DownloadCategory / DownloadToken
DownloadCategory == {[variant |-> "Published", id |-> i, file |-> f, token |-> "-"] : i \in PackageIds, f \in Files}
                    \cup {[variant |-> "User", id |-> 0, file |-> f, token |-> "-"] : f \in Files}
DownloadToken == [variant : Variants, token : DlTokens]

\* ------------------------------------------------------------------------
\* Endpoints
\* ------------------------------------------------------------------------
LoginPath == "/api/Identity/Login"
PublishedPackagesPath == "/api/DataPackage/GetPublishedDataPackages"
PackageFilesPath == "/api/DataPackage/GetDataPackageFiles/"
UserFilesPath == "/api/file/GetUserFiles"
UserTokenPath == "/api/file/GetUserFileDownloadToken"
PublishedTokenPath == "/api/file/GetDataPackageDownloadToken"
UserStreamPath == "/api/file/GetFileStream"
PublishedStreamPath == "/api/file/GetDataPackageFile"

StreamPaths == {UserStreamPath, PublishedStreamPath}
TokenPaths == {UserTokenPath, PublishedTokenPath}

Request(method, path, id, file, tok, auth, form) ==
    [method |-> method, path |-> path, id |-> id, file |-> file,
     token |-> tok, auth |-> auth, form |-> form]

\* ------------------------------------------------------------------------
\* Pure parts of the client
\* ------------------------------------------------------------------------

\* serde_json on the bodies the model's server can send
JsonValue(body) ==
    CASE body = "\"tok123\"" -> [kind |-> "string", val |-> "tok123"]
      [] body = "\"tok9\"" -> [kind |-> "string", val |-> "tok9"]
      [] body = "[]" -> [kind |-> "array", val |-> <<>>]
      [] body = TokenBodyAbc -> [kind |-> "object",
              val |-> [access_token |-> "abc", expires_in |-> 3600, is_external |-> FALSE]]
      [] body = TokenBodyXyz -> [kind |-> "object",
              val |-> [access_token |-> "xyz", expires_in |-> 60, is_external |-> TRUE]]
      [] OTHER -> [kind |-> "invalid", val |-> "-"]

\* the type each operation decodes its 200 body as
Schema(o) ==
    CASE o \in {"new", "retrieve_token"} -> "object"
      [] o \in {"get_download_token", "download_file"} -> "string"
      [] OTHER -> "array"

Matches(schema, body) == JsonValue(body).kind = schema

json_lenient(schema, readable, body) ==
    IF ~readable THEN ReqwestError("body")
    ELSE IF JsonValue(body).kind # schema THEN ServiceError(body)
    ELSE Ok(JsonValue(body).val)

\* response.json::<T>().await
json(schema, readable, body) ==
    IF ~readable THEN ReqwestError("body")
    ELSE IF JsonValue(body).kind # schema THEN ReqwestError("decode")
    ELSE Ok(JsonValue(body).val)

check_status_2xx(response) ==
    IF response.status < 200 \/ response.status > 299
    THEN IF response.readable THEN ServiceError(response.body) ELSE ReqwestError("body")
    ELSE Ok(response)

check_status_code(response) ==
    IF response.status # 200
    THEN IF response.readable THEN ServiceError(response.body) ELSE StatusError(response.status)
    ELSE Ok(response)

\* Lastkajen::check_status
check_status(response) ==
    IF response.status # 200
    THEN IF response.readable THEN ServiceError(response.body) ELSE ReqwestError("body")
    ELSE Ok(response)

\* Lastkajen::retrieve_token, the request
retrieve_token_request(form) ==
    Request("POST", LoginPath, 0, "-", "-", NoAuth, form)

\* Lastkajen::get_published_packages, the request
get_published_packages_request(access_token) ==
    Request("GET", PublishedPackagesPath, 0, "-", "-", access_token, NoForm)

\* Lastkajen::get_package_files_from_id, the request
get_package_files_from_id_request(access_token, id) ==
    Request("GET", PackageFilesPath, id, "-", "-", access_token, NoForm)

\* Lastkajen::get_package_files forwards the package's id
get_package_files_request(access_token, package) ==
    get_package_files_from_id_request(access_token, package.id)

\* Lastkajen::get_user_files, the request
get_user_files_request(access_token) ==
    Request("GET", UserFilesPath, 0, "-", "-", access_token, NoForm)

\* Lastkajen::get_download_token, the request
get_download_token_request(access_token, category) ==
    IF category.variant = "User"
    THEN Request("GET", UserTokenPath, 0, category.file, "-", access_token, NoForm)
    ELSE Request("GET", PublishedTokenPath, category.id, category.file, "-", access_token, NoForm)

wrap_token_user(category, s) == [variant |-> "User", token |-> s]

\* Lastkajen::get_download_token, the final match
wrap_token(category, s) ==
    IF category.variant = "User"
    THEN [variant |-> "User", token |-> s]
    ELSE [variant |-> "Published", token |-> s]

stream_url_swapped(download_token) ==
    IF download_token.variant = "User"
    THEN [path |-> PublishedStreamPath, token |-> download_token.token]
    ELSE [path |-> UserStreamPath, token |-> download_token.token]

\* Lastkajen::download_with_token, the url
stream_url(download_token) ==
    IF download_token.variant = "User"
    THEN [path |-> UserStreamPath, token |-> download_token.token]
    ELSE [path |-> PublishedStreamPath, token |-> download_token.token]

download_with_token_request_bearer(access_token, download_token) ==
    Request("GET", stream_url(download_token).path, 0, "-",
            stream_url(download_token).token, access_token, NoForm)

\* Lastkajen::download_with_token, the request: no bearer auth
download_with_token_request(access_token, download_token) ==
    Request("GET", stream_url(download_token).path, 0, "-",
            stream_url(download_token).token, NoAuth, NoForm)

\* the first request of each operation
FirstRequest(o, a, access_token) ==
    CASE o \in {"new", "retrieve_token"} -> retrieve_token_request(Credentials)
      [] o = "get_published_packages" -> get_published_packages_request(access_token)
      [] o = "get_package_files" -> get_package_files_request(access_token, a)
      [] o = "get_package_files_from_id" -> get_package_files_from_id_request(access_token, a.id)
      [] o = "get_user_files" -> get_user_files_request(access_token)
      [] o \in {"get_download_token", "download_file"} -> get_download_token_request(access_token, a)
      [] OTHER -> download_with_token_request(access_token, [variant |-> a.variant, token |-> a.token])

Prefix(s, n) == SubSeq(s, 1, n)

write_first(sink, chunk, written) ==
    [sink |-> sink \o Prefix(chunk, 1), ok |-> TRUE]

\* std::io::Write::write_all on the sink: all of the chunk, or an error after
\* the first `written` bytes went out
write_all(sink, chunk, written) ==
    [sink |-> sink \o Prefix(chunk, written), ok |-> written = Len(chunk)]

copy_chunk_ignore(sink, chunk, written) ==
    [sink |-> write_all(sink, chunk, written).sink, go |-> TRUE, result |-> NoResult]

\* Lastkajen::download_with_token, the body of the while loop
copy_chunk(sink, chunk, written) ==
    [sink |-> write_all(sink, chunk, written).sink,
     go |-> write_all(sink, chunk, written).ok,
     result |-> IF write_all(sink, chunk, written).ok THEN NoResult ELSE IoError("write")]

download_file_step_always(tokres) ==
    [go |-> TRUE,
     token |-> IF tokres.kind = "Ok" THEN tokres.val ELSE [variant |-> "User", token |-> "tok9"],
     result |-> NoResult]

\* Lastkajen::download_file, the `?` between its two steps
download_file_step(tokres) ==
    IF tokres.kind = "Ok"
    THEN [go |-> TRUE, token |-> tokres.val, result |-> NoResult]
    ELSE [go |-> FALSE, token |-> NoDownloadToken, result |-> tokres]

store_token_refresh(o, held, tok) ==
    IF o \in {"new", "retrieve_token"} THEN tok ELSE held

\* Lastkajen::new stores the token; nothing else does
store_token(o, held, tok) ==
    IF o = "new" THEN tok ELSE held

RECURSIVE Concat(_)
Concat(ss) == IF ss = <<>> THEN <<>> ELSE Head(ss) \o Concat(Tail(ss))

IsPrefix(s, t) == Len(s) <= Len(t) /\ s = Prefix(t, Len(s))

\* ------------------------------------------------------------------------
\* State
\* ------------------------------------------------------------------------
VARIABLES
    constructed,  \* the Session exists (Lastkajen::new has returned Ok)
    token,        \* Lastkajen.token
    op,           \* per caller: the operation it runs
    arg,          \* per caller: the operation's argument
    pc,           \* per caller: the await point it is suspended at
    reqs,         \* per caller: the requests this call has issued, in order
    resp,         \* per caller: the response in hand
    dltoken,      \* per caller: download_file's local download_token
    chunks,       \* per caller: the chunks res.chunk() has returned, in order
    sink,         \* per caller: the bytes this call has written to `writable`
    result,       \* per caller: what the call returned
    streamErr     \* per caller: sink and chunks when the copy first failed

vars == <<constructed, token, op, arg, pc, reqs, resp, dltoken, chunks, sink, result, streamErr>>

SessionOps == {"get_published_packages", "get_package_files", "get_package_files_from_id",
               "get_user_files", "get_download_token", "download_with_token", "download_file"}
Ops == {"new", "retrieve_token"} \cup SessionOps
DecodingOps == Ops \ {"download_with_token"}

Args(o) ==
    CASE o \in {"get_package_files", "get_package_files_from_id"} ->
              {[variant |-> "-", id |-> i, file |-> "-", token |-> "-"] : i \in PackageIds}
      [] o \in {"get_download_token", "download_file"} -> DownloadCategory
      [] o = "download_with_token" ->
              {[variant |-> v, id |-> 0, file |-> "-", token |-> d] : v \in Variants, d \in DlTokens}
      [] OTHER -> {NoArg}

NoStreamErr == [failed |-> FALSE, cause |-> "-", sink |-> <<>>, chunks |-> <<>>]

Init ==
    /\ constructed = FALSE
    /\ token = NoToken
    /\ op = [t \in Callers |-> "-"]
    /\ arg = [t \in Callers |-> NoArg]
    /\ pc = [t \in Callers |-> "idle"]
    /\ reqs = [t \in Callers |-> <<>>]
    /\ resp = [t \in Callers |-> NoResponse]
    /\ dltoken = [t \in Callers |-> NoDownloadToken]
    /\ chunks = [t \in Callers |-> <<>>]
    /\ sink = [t \in Callers |-> <<>>]
    /\ result = [t \in Callers |-> NoResult]
    /\ streamErr = [t \in Callers |-> NoStreamErr]

CurrentRequest(t) == reqs[t][Len(reqs[t])]
Streaming(t) == reqs[t] # <<>> /\ CurrentRequest(t).path \in StreamPaths

\* A caller starts an operation: the code up to the first send().await.
\* The methods taking &self need a Session; new and retrieve_token do not.
Call(t) ==
    /\ pc[t] = "idle"
    /\ \E o \in Ops : \E a \in Args(o) :
         /\ o \in SessionOps => constructed
         /\ o = "new" => ~constructed /\ \A u \in Callers : op[u] # "new"
         /\ op' = [op EXCEPT ![t] = o]
         /\ arg' = [arg EXCEPT ![t] = a]
         /\ reqs' = [reqs EXCEPT ![t] = <<FirstRequest(o, a, token.access_token)>>]
    /\ pc' = [pc EXCEPT ![t] = "send"]
    /\ UNCHANGED <<constructed, token, resp, dltoken, chunks, sink, result, streamErr>>

\* the call returns r
Finish(t, r) ==
    /\ pc' = [pc EXCEPT ![t] = "done"]
    /\ result' = [result EXCEPT ![t] = r]
    /\ UNCHANGED <<dltoken, reqs>>

\* download_file has get_download_token's result in hand: on Ok it goes on
\* into download_with_token, up to its send().await; on Err it returns
TokenOutcome(t, tokres) ==
    LET step == download_file_step(tokres)
    IN  IF step.go
        THEN /\ dltoken' = [dltoken EXCEPT ![t] = step.token]
             /\ reqs' = [reqs EXCEPT ![t] = Append(@,
                           download_with_token_request(token.access_token, step.token))]
             /\ pc' = [pc EXCEPT ![t] = "send"]
             /\ UNCHANGED result
        ELSE Finish(t, step.result)

\* the call is download_file, inside its get_download_token
InTokenStep(t) == op[t] = "download_file" /\ Len(reqs[t]) = 1

\* send().await fails: `?` returns the transport error
SendFails(t) ==
    /\ pc[t] = "send"
    /\ IF InTokenStep(t)
       THEN TokenOutcome(t, ReqwestError("send"))
       ELSE Finish(t, ReqwestError("send"))
    /\ UNCHANGED <<constructed, token, op, arg, resp, chunks, sink, streamErr>>

Responses ==
    {[status |-> 200, readable |-> TRUE, body |-> "-", decoded |-> FALSE]}
    \cup {[status |-> s, readable |-> TRUE, body |-> b, decoded |-> FALSE] :
             s \in Statuses \ {200}, b \in Bodies}
    \cup {[status |-> s, readable |-> FALSE, body |-> "-", decoded |-> FALSE] :
             s \in Statuses \ {200}}

\* send().await returns a response and check_status runs on it (for a status
\* other than 200 that includes response.text().await)
SendDone(t) ==
    /\ pc[t] = "send"
    /\ \E r \in Responses :
         /\ resp' = [resp EXCEPT ![t] = r]
         /\ IF check_status(r).kind = "Ok"
            THEN /\ pc' = [pc EXCEPT ![t] = IF Streaming(t) THEN "chunk" ELSE "json"]
                 /\ UNCHANGED <<result, dltoken, reqs>>
            ELSE IF InTokenStep(t)
                 THEN TokenOutcome(t, check_status(r))
                 ELSE Finish(t, check_status(r))
    /\ UNCHANGED <<constructed, token, op, arg, chunks, sink, streamErr>>

\* .json().await on the checked response, and what the operation does with
\* the decoded value
JsonDone(t) ==
    /\ pc[t] = "json"
    /\ \E readable \in BOOLEAN : \E body \in (IF readable THEN Bodies ELSE {"-"}) :
         LET r == json(Schema(op[t]), readable, body)
         IN  /\ resp' = [resp EXCEPT ![t] = [status |-> resp[t].status, readable |-> readable,
                                              body |-> body, decoded |-> TRUE]]
             /\ IF op[t] = "download_file"
                THEN /\ TokenOutcome(t, IF r.kind = "Ok" THEN Ok(wrap_token(arg[t], r.val)) ELSE r)
                     /\ UNCHANGED <<token, constructed>>
                ELSE /\ Finish(t, IF r.kind = "Ok" /\ op[t] = "get_download_token"
                                  THEN Ok(wrap_token(arg[t], r.val)) ELSE r)
                     /\ token' = IF r.kind = "Ok" THEN store_token(op[t], token, r.val) ELSE token
                     /\ constructed' = (constructed \/ (r.kind = "Ok" /\ op[t] = "new"))
    /\ UNCHANGED <<op, arg, chunks, sink, streamErr>>

\* res.chunk().await returns Some(chunk): the chunk goes to the sink
ChunkSome(t, limit) ==
    /\ pc[t] = "chunk"
    /\ Len(chunks[t]) < limit
    /\ \E n \in 1..MaxChunkLen : \E written \in 0..n :
         LET c == NextChunk(Len(Concat(chunks[t])), n)
             s == copy_chunk(sink[t], c, written)
         IN  /\ chunks' = [chunks EXCEPT ![t] = Append(@, c)]
             /\ sink' = [sink EXCEPT ![t] = s.sink]
             /\ IF s.go
                THEN UNCHANGED <<pc, result, streamErr>>
                ELSE /\ pc' = [pc EXCEPT ![t] = "done"]
                     /\ result' = [result EXCEPT ![t] = s.result]
                     /\ streamErr' = [streamErr EXCEPT ![t] =
                            [failed |-> TRUE, cause |-> "write", sink |-> s.sink, chunks |-> chunks'[t]]]
    /\ UNCHANGED <<constructed, token, op, arg, reqs, resp, dltoken>>

\* res.chunk().await returns None: the loop ends and the call returns Ok(())
ChunkNone(t) ==
    /\ pc[t] = "chunk"
    /\ pc' = [pc EXCEPT ![t] = "done"]
    /\ result' = [result EXCEPT ![t] = Ok("unit")]
    /\ UNCHANGED <<constructed, token, op, arg, reqs, resp, dltoken, chunks, sink, streamErr>>

\* res.chunk().await fails: `?` returns the transport error
ChunkFails(t) ==
    /\ pc[t] = "chunk"
    /\ pc' = [pc EXCEPT ![t] = "done"]
    /\ result' = [result EXCEPT ![t] = ReqwestError("chunk")]
    /\ streamErr' = [streamErr EXCEPT ![t] =
           [failed |-> TRUE, cause |-> "chunk", sink |-> sink[t], chunks |-> chunks[t]]]
    /\ UNCHANGED <<constructed, token, op, arg, reqs, resp, dltoken, chunks, sink>>

\* the caller takes the result; the call's locals are dropped
Return(t) ==
    /\ pc[t] = "done"
    /\ op' = [op EXCEPT ![t] = "-"]
    /\ arg' = [arg EXCEPT ![t] = NoArg]
    /\ pc' = [pc EXCEPT ![t] = "idle"]
    /\ reqs' = [reqs EXCEPT ![t] = <<>>]
    /\ resp' = [resp EXCEPT ![t] = NoResponse]
    /\ dltoken' = [dltoken EXCEPT ![t] = NoDownloadToken]
    /\ chunks' = [chunks EXCEPT ![t] = <<>>]
    /\ sink' = [sink EXCEPT ![t] = <<>>]
    /\ result' = [result EXCEPT ![t] = NoResult]
    /\ streamErr' = [streamErr EXCEPT ![t] = NoStreamErr]
    /\ UNCHANGED <<constructed, token>>

Next ==
    \E t \in Solo :
        \/ Call(t)
        \/ SendFails(t)
        \/ SendDone(t)
        \/ JsonDone(t)
        \/ ChunkSome(t, MaxChunks)
        \/ ChunkNone(t)
        \/ ChunkFails(t)
        \/ Return(t)

\* one caller, any sequence of calls
Spec == Init /\ [][Next]_vars

NextConc ==
    \E t \in Callers :
        \/ Call(t)
        \/ SendFails(t)
        \/ SendDone(t)
        \/ JsonDone(t)
        \/ ChunkSome(t, ConcChunks)
        \/ ChunkNone(t)
        \/ ChunkFails(t)
        \/ Return(t)

\* two callers on the same Session, any interleaving of their await points
SpecConc == Init /\ [][NextConc]_vars

\* ------------------------------------------------------------------------
\* Properties
\* ------------------------------------------------------------------------

\* the response in hand is the one the streaming request got
StreamResponse(t) == Streaming(t) /\ resp[t] # NoResponse /\ ~resp[t].decoded

\* the download token download_with_token runs on
TokenInUse(t) ==
    IF op[t] = "download_with_token"
    THEN [variant |-> arg[t].variant, token |-> arg[t].token]
    ELSE dltoken[t]

\* C1: for every response whose status is not exactly 200 (other 2xx codes
\* included) no JSON decoding is attempted and the call ends with an error:
\* ServiceError carrying the body text when the body could be read, the
\* transport error of the body read otherwise.  The response is passed on
\* (to decoding or to the chunk loop) only when the status is exactly 200.
C1_NonOkStatusIsError ==
    \A t \in Callers :
        /\ pc[t] \in {"json", "chunk"} => resp[t].status = 200
        /\ (resp[t] # NoResponse /\ resp[t].status # 200) =>
              /\ ~resp[t].decoded
              /\ pc[t] = "done"
              /\ result[t].kind = (IF resp[t].readable THEN "LastkajenError" ELSE "ReqwestError")
              /\ result[t].val = (IF resp[t].readable THEN resp[t].body ELSE "body")

\* a login answered 401 "bad credentials" has returned ServiceError("bad credentials")
C1_Witness ==
    \E t \in Callers :
        /\ op[t] \in {"new", "retrieve_token"}
        /\ resp[t].status = 401
        /\ resp[t].body = "bad credentials"
        /\ pc[t] = "done"
        /\ result[t] = ServiceError("bad credentials")

\* C2: whenever get_download_token succeeds, the DownloadToken has the variant
\* of the DownloadCategory it was given and carries the bare string the
\* server returned; the token download_file obtains has its request's variant.
C2_TokenVariantMatchesRequest ==
    \A t \in Callers :
        /\ (op[t] = "get_download_token" /\ pc[t] = "done" /\ result[t].kind = "Ok") =>
              /\ result[t].val.variant = arg[t].variant
              /\ resp[t].body \in {"\"tok123\"", "\"tok9\""}
              /\ resp[t].body = "\"tok123\"" => result[t].val.token = "tok123"
              /\ resp[t].body = "\"tok9\"" => result[t].val.token = "tok9"
        /\ (op[t] = "download_file" /\ dltoken[t] # NoDownloadToken) =>
              dltoken[t].variant = arg[t].variant

\* get_download_token(User{file: "a.zip"}) answered "tok123" has returned User("tok123")
C2_Witness ==
    \E t \in Callers :
        /\ op[t] = "get_download_token"
        /\ arg[t].variant = "User"
        /\ arg[t].file = "a.zip"
        /\ resp[t].body = "\"tok123\""
        /\ pc[t] = "done"
        /\ result[t] = Ok([variant |-> "User", token |-> "tok123"])

\* C3: every streaming request goes to the endpoint of the token's variant
\* (Published to GetDataPackageFile, User to GetFileStream, never crossed) and
\* carries the token string of the DownloadToken.
C3_StreamEndpointMatchesToken ==
    \A t \in Callers : \A i \in 1..Len(reqs[t]) :
        reqs[t][i].path \in StreamPaths =>
            /\ TokenInUse(t).variant \in Variants
            /\ TokenInUse(t).variant = "Published" => reqs[t][i].path = PublishedStreamPath
            /\ TokenInUse(t).variant = "User" => reqs[t][i].path = UserStreamPath
            /\ reqs[t][i].token = TokenInUse(t).token
            /\ reqs[t][i].method = "GET"

\* download_with_token(Published("tok123")) has its request out to GetDataPackageFile
C3_Witness ==
    \E t \in Callers :
        /\ op[t] = "download_with_token"
        /\ arg[t].variant = "Published"
        /\ arg[t].token = "tok123"
        /\ pc[t] = "send"
        /\ CurrentRequest(t).path = PublishedStreamPath
        /\ CurrentRequest(t).token = "tok123"

\* C4: when the streaming request got a 200 and no chunk read and no sink
\* write failed, the call returns Ok and the sink holds exactly the
\* concatenation of the response's chunks in arrival order.
C4_SinkIsConcatenation ==
    \A t \in Callers :
        (StreamResponse(t) /\ resp[t].status = 200 /\ pc[t] = "done" /\ ~streamErr[t].failed) =>
            /\ result[t] = Ok("unit")
            /\ sink[t] = Concat(chunks[t])

\* a download of three chunks, one of them longer than a byte, has returned Ok
C4_Witness ==
    \E t \in Callers :
        /\ StreamResponse(t)
        /\ pc[t] = "done"
        /\ result[t].kind = "Ok"
        /\ Len(chunks[t]) = 3
        /\ Len(sink[t]) > 3

\* a non-200 response whose body could not be read has ended the call
UnreadableError(t) ==
    /\ pc[t] = "done"
    /\ resp[t] # NoResponse
    /\ resp[t].status # 200
    /\ ~resp[t].readable

\* C5 as stated: a non-success status without a readable error body is
\* reported as StatusError(code).
C5_Original ==
    \A t \in Callers : UnreadableError(t) => result[t].kind = "StatusError"

\* C5 as amended: no operation ever returns the StatusError kind; a non-200
\* status whose body cannot be read is reported as the transport error of the
\* body read (ReqwestError).
C5_NoStatusError ==
    \A t \in Callers :
        /\ result[t].kind # "StatusError"
        /\ UnreadableError(t) => result[t] = ReqwestError("body")

\* a 401 without a readable body has been reported
C5_Witness ==
    \E t \in Callers :
        /\ UnreadableError(t)
        /\ resp[t].status = 401
        /\ result[t].kind = "ReqwestError"

BearerOps == {"get_published_packages", "get_package_files", "get_package_files_from_id",
              "get_user_files", "get_download_token"}
BearerPaths == {PublishedPackagesPath, PackageFilesPath, UserFilesPath} \cup TokenPaths

\* C6: the requests of the listing operations and of get_download_token carry
\* bearer auth equal to the Session's access_token; the login request and the
\* streaming request carry no bearer auth.
C6_AuthByOperation ==
    \A t \in Callers : \A i \in 1..Len(reqs[t]) :
        /\ reqs[t][i].path \in BearerPaths =>
              /\ constructed
              /\ reqs[t][i].auth # NoAuth
              /\ reqs[t][i].auth = token.access_token
        /\ reqs[t][i].path \in StreamPaths \cup {LoginPath} => reqs[t][i].auth = NoAuth
        /\ op[t] \in BearerOps => reqs[t][i].path \in BearerPaths
        /\ op[t] \in {"new", "retrieve_token"} => reqs[t][i].path = LoginPath
        /\ op[t] = "download_with_token" => reqs[t][i].path \in StreamPaths
        /\ op[t] = "download_file" => reqs[t][i].path \in (IF i = 1 THEN TokenPaths ELSE StreamPaths)

\* download_file has sent its token request with the bearer token and its
\* streaming request without
C6_Witness ==
    \E t \in Callers :
        /\ op[t] = "download_file"
        /\ Len(reqs[t]) = 2
        /\ reqs[t][1].auth = "abc"
        /\ reqs[t][2].auth = NoAuth
        /\ reqs[t][2].path \in StreamPaths

\* C7: download_file issues the token request first and the streaming request
\* only after the token request succeeded, with the token just obtained; when
\* the token step fails the call returns that error with no streaming request
\* and nothing written; when the download fails the call returns that error;
\* one call issues at most one token request and one streaming request.
C7_DownloadFileOrder ==
    \A t \in Callers :
        op[t] = "download_file" =>
            /\ Len(reqs[t]) \in {1, 2}
            /\ reqs[t][1].path \in TokenPaths
            /\ Len(reqs[t]) = 2 =>
                  /\ reqs[t][2].path \in StreamPaths
                  /\ dltoken[t] \in DownloadToken
                  /\ reqs[t][2].token = dltoken[t].token
            /\ (Len(reqs[t]) = 2 /\ pc[t] = "send") =>
                  /\ resp[t].status = 200
                  /\ resp[t].decoded
                  /\ resp[t].readable
                  /\ Matches("string", resp[t].body)
                  /\ JsonValue(resp[t].body).val = dltoken[t].token
            /\ Len(reqs[t]) = 1 =>
                  /\ dltoken[t] = NoDownloadToken
                  /\ sink[t] = <<>>
                  /\ chunks[t] = <<>>
                  /\ pc[t] = "done" => result[t].kind \in {"ReqwestError", "LastkajenError"}
            /\ (Len(reqs[t]) = 2 /\ pc[t] = "done" /\ result[t].kind # "Ok") =>
                  result[t].kind \in {"ReqwestError", "LastkajenError", "IoError"}

\* download_file got its token and then failed in the copy, having sent one
\* request of each kind
C7_Witness ==
    \E t \in Callers :
        /\ op[t] = "download_file"
        /\ Len(reqs[t]) = 2
        /\ dltoken[t].token = "tok123"
        /\ pc[t] = "done"
        /\ result[t].kind = "IoError"

\* C8: the first chunk-read or sink-write failure ends the copy: the call
\* returns it (transport error for a read, IoError for a write) and neither
\* chunks nor sink move afterwards; no second streaming request is made; at
\* every point the sink holds a prefix of the concatenation of the chunks, and
\* nothing is written for a non-200 response.
C8_CopyStopsAtFirstFailure ==
    \A t \in Callers :
        /\ IsPrefix(sink[t], Concat(chunks[t]))
        /\ streamErr[t].failed =>
              /\ pc[t] = "done"
              /\ result[t] = (IF streamErr[t].cause = "chunk"
                              THEN ReqwestError("chunk") ELSE IoError("write"))
              /\ sink[t] = streamErr[t].sink
              /\ chunks[t] = streamErr[t].chunks
        /\ Cardinality({i \in 1..Len(reqs[t]) : reqs[t][i].path \in StreamPaths}) <= 1
        /\ (StreamResponse(t) /\ resp[t].status # 200) => (sink[t] = <<>> /\ chunks[t] = <<>>)
        /\ (pc[t] = "done" /\ result[t].kind = "IoError") => streamErr[t].cause = "write"

\* a write failed in the second chunk after part of it went out
C8_Witness ==
    \E t \in Callers :
        /\ streamErr[t].failed
        /\ streamErr[t].cause = "write"
        /\ Len(chunks[t]) = 2
        /\ Len(sink[t]) < Len(Concat(chunks[t]))
        /\ Len(sink[t]) > Len(chunks[t][1])

\* C9: in every decoding operation the body is decoded only after the status
\* check passed with exactly 200, and a 200 body that does not match the
\* expected schema (or cannot be read) yields ReqwestError, never a
\* ServiceError and never a success value.
C9_DecodeOnlyAfter200 ==
    \A t \in Callers :
        /\ resp[t].decoded => (resp[t].status = 200 /\ op[t] \in DecodingOps)
        /\ (resp[t].decoded /\ (~resp[t].readable \/ ~Matches(Schema(op[t]), resp[t].body))) =>
              /\ pc[t] = "done"
              /\ result[t].kind = "ReqwestError"
        /\ (resp[t].decoded /\ pc[t] = "done" /\ result[t].kind = "Ok" /\ Len(reqs[t]) = 1) =>
              (resp[t].readable /\ Matches(Schema(op[t]), resp[t].body))

\* get_user_files got a 200 whose body is a bare string and returned the parse error
C9_Witness ==
    \E t \in Callers :
        /\ op[t] = "get_user_files"
        /\ resp[t].status = 200
        /\ resp[t].body = "\"tok123\""
        /\ pc[t] = "done"
        /\ result[t] = ReqwestError("decode")

\* C10: the Session's token is set once, by new, to the Token the login
\* returned; no step of any operation, under any interleaving of two callers,
\* changes it afterwards, and every bearer request carries its access_token.
C10_TokenSetOnce ==
    [][/\ constructed => (constructed' /\ token' = token)
       /\ ~constructed' => token' = NoToken
       /\ (~constructed /\ constructed') =>
              \E t \in Callers :
                  /\ op[t] = "new"
                  /\ pc[t] = "json"
                  /\ token' = JsonValue(resp'[t].body).val
                  /\ token'.access_token \in {"abc", "xyz"}
       /\ \A t \in Callers : \A i \in 1..Len(reqs'[t]) :
              reqs'[t][i].auth # NoAuth => reqs'[t][i].auth = token'.access_token
      ]_vars

\* the Session holds "abc"; one caller's retrieve_token has returned the token
\* "xyz" while the other caller's listing request is in flight
C10_Witness ==
    /\ constructed
    /\ token.access_token = "abc"
    /\ op["c1"] = "retrieve_token"
    /\ pc["c1"] = "done"
    /\ result["c1"].kind = "Ok"
    /\ result["c1"].val.access_token = "xyz"
    /\ op["c2"] = "get_user_files"
    /\ pc["c2"] = "send"
    /\ CurrentRequest("c2").auth = "abc"

====
